---- MODULE Spec2Model ----
(***************************************************************************)
(* Quality moderation of backend/app/quality_moderation.py: the guideline  *)
(* catalog, the four HTTP handlers of the /quality-moderation router, the  *)
(* authorization dependency and the status aggregation.                    *)
(*                                                                         *)
(* Python's None is the empty sequence and a present value v is <<v>>, so  *)
(* that an optional boolean keeps its three values.  Instants are          *)
(* integers; datetime.datetime.min is DatetimeMin.                         *)
(***************************************************************************)
EXTENDS Integers, Sequences, FiniteSets, TLC

\* Bounds of the model.
MaxTime == 3
MaxUpserts == 2
MaxDrift == 1

\* datetime.datetime.min
DatetimeMin == 0

None == <<>>
Some(v) == <<v>>

VARIABLES
    GUIDELINES,          \* the catalog, fixed when the process starts
    quality_moderation,  \* the rows of the QualityModeration table (db)
    clock,               \* the wall clock datetime.datetime.now() reads
    nUpserts,            \* number of upserts performed so far
    request,             \* the HTTP request being answered
    response,            \* its response
    upserts,             \* arguments of each QualityModeration.upsert call it made
    evals                \* locals of each status evaluation it ran

vars == <<GUIDELINES, quality_moderation, clock, nUpserts, request, response, upserts, evals>>

----------------------------------------------------------------------------
\* The catalog

Guideline(id, needed_to_pass_since, read_only) ==
    [id |-> id, needed_to_pass_since |-> needed_to_pass_since, read_only |-> read_only]

GuidelineCategory(id, guidelines) == [id |-> id, guidelines |-> guidelines]

\* Activation instants a catalog of the model may use.
ActivationTimes == {DatetimeMin + 2, DatetimeMin + 3}

\* The shape of GUIDELINES, cut down to the first guideline of two of its
\* categories; "app-name-not-too-long" is read_only.
Catalog(t1, t2) ==
    << GuidelineCategory("general",
           << Guideline("general-no-trademark-violations", t1, FALSE) >>),
       GuidelineCategory("app-name",
           << Guideline("app-name-not-too-long", t2, TRUE) >>) >>

Catalogs == { Catalog(t1, t2) : t1 \in ActivationTimes, t2 \in ActivationTimes }

\* Guideline ids a request body may carry: those of the catalog and
\* "app-icon-size", which the catalog no longer holds.
GuidelineIds ==
    { "general-no-trademark-violations", "app-name-not-too-long", "app-icon-size" }

\* get_all_appids_for_frontend()
AllAppIds == << "org.gnome.Glade", "org.gnome.Maps" >>

PathAppIds == { AllAppIds[i] : i \in DOMAIN AllAppIds }

\* LoginStatusDep values: the user (if any), whether the login state is
\* logged in, and the user's is_quality_moderator flag.
User(id, is_quality_moderator) == [id |-> id, is_quality_moderator |-> is_quality_moderator]

Logins ==
    { [user |-> None, logged_in |-> FALSE],
      [user |-> Some(User("m1", TRUE)), logged_in |-> FALSE],
      [user |-> Some(User("u1", FALSE)), logged_in |-> TRUE],
      [user |-> Some(User("m1", TRUE)), logged_in |-> TRUE],
      [user |-> Some(User("m2", TRUE)), logged_in |-> TRUE] }

----------------------------------------------------------------------------
\* Helpers

Last(s) == s[Len(s)]

RECURSIVE SetMax(_)
SetMax(S) ==
    LET x == CHOOSE y \in S : TRUE
    IN  IF S = {x} THEN x
        ELSE LET m == SetMax(S \ {x}) IN IF x > m THEN x ELSE m

Min2(a, b) == IF a < b THEN a ELSE b

\* The values successive datetime.datetime.now() calls of one handler can
\* return: n readings, none before lo, none after hi, never going back.
RECURSIVE ClockReads(_, _, _)
ClockReads(n, lo, hi) ==
    IF n = 0 THEN { <<>> }
    ELSE UNION { { <<v>> \o s : s \in ClockReads(n - 1, v, hi) } : v \in lo..hi }

HandlerReads(n) == ClockReads(n, clock, Min2(clock + MaxDrift, MaxTime))

----------------------------------------------------------------------------
\* The QualityModeration table (models.QualityModeration)

\* The rows of a query, in the order the database returns them.
RECURSIVE Rows(_)
Rows(S) ==
    IF S = {} THEN <<>>
    ELSE LET row == CHOOSE r \in S : TRUE IN <<row>> \o Rows(S \ {row})

by_appid(db, app_id) == Rows({ row \in db : row.app_id = app_id })

RowsOf(db, app_id, guideline_id) ==
    { row \in db : row.app_id = app_id /\ row.guideline_id = guideline_id }

\* Mutant of upsert: a plain insert.
upsert_AlwaysInsert(db, app_id, guideline_id, passed, moderator_id, now) ==
    db \cup { [app_id |-> app_id, guideline_id |-> guideline_id, passed |-> passed,
               moderator_id |-> moderator_id, updated_at |-> now] }

\* Create the row of (app_id, guideline_id), or overwrite passed,
\* moderator_id and updated_at of the row that exists.
upsert(db, app_id, guideline_id, passed, moderator_id, now) ==
    LET row == [app_id |-> app_id, guideline_id |-> guideline_id, passed |-> passed,
                moderator_id |-> moderator_id, updated_at |-> now]
    IN  (db \ RowsOf(db, app_id, guideline_id)) \cup {row}

----------------------------------------------------------------------------
\* The authorization dependency

HTTPException(status_code, detail) == [status_code |-> status_code, detail |-> detail]

\* None when the dependency returns the login, else the exception it raises.
quality_moderator_only(login) ==
    IF login.user = None \/ ~login.logged_in
    THEN Some(HTTPException(401, "not_logged_in"))
    ELSE IF ~login.user[1].is_quality_moderator
    THEN Some(HTTPException(403, "not_quality_moderator"))
    ELSE None

----------------------------------------------------------------------------
\* get_quality_moderation_status_for_appid

\* for category in GUIDELINES: for guideline in category.guidelines
RECURSIVE Flatten(_)
Flatten(categories) ==
    IF categories = <<>> THEN <<>>
    ELSE LET category == Head(categories)
         IN  [i \in 1..Len(category.guidelines) |->
                 [category |-> category.id, guideline |-> category.guidelines[i]]]
             \o Flatten(Tail(categories))

\* Mutant of NotYetNeeded: the activation filter is missing.
NotYetNeeded_Never(guideline, now) == FALSE

\* if guideline.needed_to_pass_since > datetime.datetime.now(): continue
NotYetNeeded(guideline, now) == guideline.needed_to_pass_since > now

\* Mutant of firstMatch: the first mark, whatever its guideline.
firstMatch_AnyGuideline(marks, guideline_id) ==
    IF marks = <<>> THEN None ELSE Some(marks[1])

\* next((mark for mark in marks if mark.guideline_id == guideline.id), None)
firstMatch(marks, guideline_id) ==
    LET found == { i \in DOMAIN marks : marks[i].guideline_id = guideline_id }
    IN  IF found = {} THEN None
        ELSE Some(marks[CHOOSE i \in found : \A j \in found : i <= j])

\* The dict appended to checks.
Check(category, guideline, match) ==
    [category |-> category,
     guideline |-> guideline.id,
     needed_to_pass_since |-> guideline.needed_to_pass_since,
     passed |-> IF match # None THEN Some(match[1].passed) ELSE None,
     updated_at |-> IF match # None THEN Some(match[1].updated_at) ELSE None]

\* Mutant of UnratedStep: unrated += 1 for every listed guideline.
UnratedStep_Always(match) == 1

\* unrated += 1 only when firstMatch is None
UnratedStep(match) == IF match = None THEN 1 ELSE 0

\* The loop over the first i guidelines of the flattened catalog; reads[k] is
\* what datetime.datetime.now() returns for the k-th guideline.
RECURSIVE GuidelineLoop(_, _, _, _)
GuidelineLoop(flat, marks, reads, i) ==
    IF i = 0 THEN [checks |-> <<>>, unrated |-> 0]
    ELSE LET acc == GuidelineLoop(flat, marks, reads, i - 1)
             guideline == flat[i].guideline
             match == firstMatch(marks, guideline.id)
         IN  IF NotYetNeeded(guideline, reads[i]) THEN acc
             ELSE [checks |-> Append(acc.checks, Check(flat[i].category, guideline, match)),
                   unrated |-> acc.unrated + UnratedStep(match)]

\* Mutant of NeededBefore: the comparison is reversed.
NeededBefore_Reversed(item, now) == item.needed_to_pass_since > now

\* item["needed_to_pass_since"] < datetime.datetime.now()
NeededBefore(item, now) == item.needed_to_pass_since < now

\* Mutant of HasVerdict: any verdict counts as passed, none as failed.
HasVerdict_AnyIsPassed(item, want) == want /\ item.passed # None

\* item["passed"] (want = TRUE) and item["passed"] is False (want = FALSE)
HasVerdict(item, want) == item.passed = Some(want)

\* One of the two list comprehensions over the first i checks: the clock is
\* read only for an item whose verdict is the wanted one (short-circuit and);
\* used counts the readings taken.
RECURSIVE Tally(_, _, _, _)
Tally(checks, want, reads, i) ==
    IF i = 0 THEN [items |-> <<>>, used |-> 0]
    ELSE LET acc == Tally(checks, want, reads, i - 1)
             item == checks[i]
         IN  IF ~HasVerdict(item, want) THEN acc
             ELSE [items |-> IF NeededBefore(item, reads[acc.used + 1])
                             THEN Append(acc.items, item) ELSE acc.items,
                   used |-> acc.used + 1]

\* Mutant of last_updated: only the verdicts of catalog guidelines count.
last_updated_CatalogOnly(checks) ==
    LET ids == UNION { { c.guidelines[i].id : i \in DOMAIN c.guidelines } :
                       c \in { GUIDELINES[k] : k \in DOMAIN GUIDELINES } }
    IN  SetMax({ checks[i].updated_at :
                   i \in { x \in DOMAIN checks : checks[x].guideline_id \in ids } }
               \cup { DatetimeMin })

\* max([check.updated_at for check in checks] + [datetime.datetime.min])
last_updated(checks) ==
    SetMax({ checks[i].updated_at : i \in DOMAIN checks } \cup { DatetimeMin })

\* Mutant of Passes: failed verdicts are not looked at.
Passes_UnratedOnly(unrated, not_passed) == unrated = 0

\* "passes": unrated + not_passed == 0
Passes(unrated, not_passed) == unrated + not_passed = 0

\* Clock readings one evaluation can need: one per guideline in the loop and
\* at most one per check in the two tallies together.
NReads == 2 * Len(Flatten(GUIDELINES))

\* The locals of one evaluation and the dict it returns (result); reads are
\* the clock readings it took, in order.
get_quality_moderation_status_for_appid(db, app_id, reads) ==
    LET marks == by_appid(db, app_id)
        flat == Flatten(GUIDELINES)
        n == Len(flat)
        loop == GuidelineLoop(flat, marks, reads, n)
        checks == loop.checks
        unrated == loop.unrated
        afterLoop == SubSeq(reads, n + 1, Len(reads))
        p == Tally(checks, TRUE, afterLoop, Len(checks))
        afterPassed == SubSeq(afterLoop, p.used + 1, Len(afterLoop))
        np == Tally(checks, FALSE, afterPassed, Len(checks))
        passed == Len(p.items)
        not_passed == Len(np.items)
    IN  [app_id |-> app_id,
         marks |-> marks,
         checks |-> checks,
         passed_items |-> p.items,
         not_passed_items |-> np.items,
         reads |-> SubSeq(reads, 1, n + p.used + np.used),
         result |-> [passes |-> Passes(unrated, not_passed),
                     unrated |-> unrated,
                     passed |-> passed,
                     not_passed |-> not_passed,
                     last_updated |-> last_updated(marks)]]

----------------------------------------------------------------------------
\* The HTTP handlers

Request(endpoint, app_id, login, body) ==
    [endpoint |-> endpoint, app_id |-> app_id, login |-> login, body |-> body]

Rejected(exception) ==
    [status_code |-> exception.status_code, detail |-> Some(exception.detail), body |-> None]

Ok(body) == [status_code |-> 200, detail |-> None, body |-> body]

UpsertQualityModeration(guideline_id, passed) == [guideline_id |-> guideline_id, passed |-> passed]

Bodies == { UpsertQualityModeration(g, p) : g \in GuidelineIds, p \in BOOLEAN }

\* A request the dependency rejects: no handler body runs.
Reject(req, exception) ==
    /\ request' = req
    /\ response' = Rejected(exception)
    /\ upserts' = <<>>
    /\ evals' = <<>>
    /\ UNCHANGED <<GUIDELINES, quality_moderation, clock, nUpserts>>

\* The evaluations of the apps in order; app k uses its own NReads readings.
StatusOfAll(reads) ==
    [k \in DOMAIN AllAppIds |->
        get_quality_moderation_status_for_appid(
            quality_moderation, AllAppIds[k], SubSeq(reads, (k - 1) * NReads + 1, k * NReads))]

\* @router.get("/status")
get_quality_moderation_status(login) ==
    LET req == Request("GET /status", None, login, None)
        gate == quality_moderator_only(login)
    IN  IF gate # None THEN Reject(req, gate[1])
        ELSE \E reads \in HandlerReads(NReads * Len(AllAppIds)) :
               LET all == StatusOfAll(reads)
               IN  /\ request' = req
                   /\ response' = Ok(Some([apps |->
                          [k \in DOMAIN all |->
                              [id |-> all[k].app_id,
                               quality_moderation_status |-> all[k].result]]]))
                   /\ upserts' = <<>>
                   /\ evals' = all
                   /\ clock' = Last(Last(all).reads)
                   /\ UNCHANGED <<GUIDELINES, quality_moderation, nUpserts>>

\* {item.guideline_id: item for item in items}
MarksDict(items) ==
    [g \in { items[i].guideline_id : i \in DOMAIN items } |->
        items[CHOOSE i \in DOMAIN items :
                 /\ items[i].guideline_id = g
                 /\ \A j \in DOMAIN items : items[j].guideline_id = g => j <= i]]

\* @router.get("/{app_id}")
get_quality_moderation_for_app(app_id, login) ==
    LET req == Request("GET /{app_id}", Some(app_id), login, None)
        gate == quality_moderator_only(login)
    IN  IF gate # None THEN Reject(req, gate[1])
        ELSE LET items == by_appid(quality_moderation, app_id)
             IN  /\ request' = req
                 /\ response' = Ok(Some([categories |-> GUIDELINES,
                                         marks |-> MarksDict(items)]))
                 /\ upserts' = <<>>
                 /\ evals' = <<>>
                 /\ UNCHANGED <<GUIDELINES, quality_moderation, clock, nUpserts>>

\* Mutant of UpsertArgs: the verdict is always stored as passed.
UpsertArgs_AlwaysPassed(body, app_id, moderator) ==
    [app_id |-> app_id, guideline_id |-> body.guideline_id, passed |-> TRUE,
     moderator_id |-> moderator.user[1].id]

\* upsert(db, app_id, body.guideline_id, body.passed, moderator.user.id)
UpsertArgs(body, app_id, moderator) ==
    [app_id |-> app_id, guideline_id |-> body.guideline_id, passed |-> body.passed,
     moderator_id |-> moderator.user[1].id]

\* @router.post("/{app_id}")
set_quality_moderation_for_app(body, app_id, login) ==
    LET req == Request("POST /{app_id}", Some(app_id), login, Some(body))
        gate == quality_moderator_only(login)
    IN  IF gate # None THEN Reject(req, gate[1])
        ELSE /\ nUpserts < MaxUpserts
             /\ LET args == UpsertArgs(body, app_id, login)
                IN  /\ quality_moderation' =
                          upsert(quality_moderation, args.app_id, args.guideline_id,
                                 args.passed, args.moderator_id, clock)
                    /\ upserts' = << args >>
             /\ nUpserts' = nUpserts + 1
             /\ request' = req
             /\ response' = Ok(None)
             /\ evals' = <<>>
             /\ UNCHANGED <<GUIDELINES, clock>>

\* @router.get("/{app_id}/status"): declares no dependency on
\* quality_moderator_only
get_quality_moderation_status_for_app(app_id, login) ==
    \E reads \in HandlerReads(NReads) :
        LET one == get_quality_moderation_status_for_appid(quality_moderation, app_id, reads)
        IN  /\ request' = Request("GET /{app_id}/status", Some(app_id), login, None)
            /\ response' = Ok(Some(one.result))
            /\ upserts' = <<>>
            /\ evals' = << one >>
            /\ clock' = Last(one.reads)
            /\ UNCHANGED <<GUIDELINES, quality_moderation, nUpserts>>

\* Time passes between requests.
Tick ==
    /\ request.endpoint = ""
    /\ clock < MaxTime
    /\ clock' = clock + 1
    /\ UNCHANGED <<GUIDELINES, quality_moderation, nUpserts, request, response, upserts, evals>>

----------------------------------------------------------------------------

NoRequest == Request("", None, [user |-> None, logged_in |-> FALSE], None)

\* No request is being handled.
Idle == request = NoRequest

\* The response is sent; the handler's locals are gone.
Respond ==
    /\ ~Idle
    /\ request' = NoRequest
    /\ response' = Ok(None)
    /\ upserts' = <<>>
    /\ evals' = <<>>
    /\ UNCHANGED <<GUIDELINES, quality_moderation, clock, nUpserts>>

Init ==
    /\ GUIDELINES \in Catalogs
    /\ quality_moderation = {}
    /\ clock = DatetimeMin + 1
    /\ nUpserts = 0
    /\ request = NoRequest
    /\ response = Ok(None)
    /\ upserts = <<>>
    /\ evals = <<>>

GetStatus == Idle /\ \E login \in Logins : get_quality_moderation_status(login)

GetForApp ==
    Idle /\ \E app_id \in PathAppIds, login \in Logins :
        get_quality_moderation_for_app(app_id, login)

SetForApp ==
    Idle /\ \E body \in Bodies, app_id \in PathAppIds, login \in Logins :
        set_quality_moderation_for_app(body, app_id, login)

GetStatusForApp ==
    Idle /\ \E app_id \in PathAppIds, login \in Logins :
        get_quality_moderation_status_for_app(app_id, login)

Next ==
    \/ GetStatus
    \/ GetForApp
    \/ SetForApp
    \/ GetStatusForApp
    \/ Respond
    \/ Tick

Spec == Init /\ [][Next]_vars

\* The verdict store alone, under one catalog: upserts and the detail view.
InitStore == Init /\ GUIDELINES = Catalog(DatetimeMin + 2, DatetimeMin + 3)

NextStore ==
    \/ SetForApp
    \/ GetForApp
    \/ Respond
    \/ Tick

SpecStore == InitStore /\ [][NextStore]_vars

\* One app is rated, by any caller, while the status of any app is requested.
Moderate ==
    Idle /\ \E body \in Bodies, login \in Logins :
                set_quality_moderation_for_app(body, AllAppIds[1], login)

StatusOfModerated == GetStatusForApp

NextModerate ==
    \/ Moderate
    \/ StatusOfModerated
    \/ Respond
    \/ Tick

SpecModerate == Init /\ [][NextModerate]_vars

\* The status evaluation over every catalog, instant and verdict set of
\* one app: each guideline id has no verdict, or one of either value
\* written at an instant up to now.
VerdictChoices(now) ==
    { None } \cup
    { Some([passed |-> p, updated_at |-> t]) : p \in BOOLEAN, t \in (DatetimeMin + 1)..now }

VerdictSets(app_id, now) ==
    { { [app_id |-> app_id, guideline_id |-> g, passed |-> f[g][1].passed,
         moderator_id |-> "m1", updated_at |-> f[g][1].updated_at] :
          g \in { x \in GuidelineIds : f[x] # None } } :
        f \in [GuidelineIds -> VerdictChoices(now)] }

InitEval ==
    /\ GUIDELINES \in Catalogs
    /\ clock \in (DatetimeMin + 1)..MaxTime
    /\ quality_moderation \in VerdictSets(AllAppIds[1], clock)
    /\ nUpserts = 0
    /\ request = NoRequest
    /\ response = Ok(None)
    /\ upserts = <<>>
    /\ evals = <<>>

NextEval ==
    \/ GetStatus
    \/ GetStatusForApp
    \/ Respond
    \/ Tick

SpecEval == InitEval /\ [][NextEval]_vars

----------------------------------------------------------------------------
\* Vocabulary of the properties

Flat == Flatten(GUIDELINES)

CatalogIds == { Flat[i].guideline.id : i \in DOMAIN Flat }

Needed(i) == Flat[i].guideline.needed_to_pass_since

\* The clock reading evaluation e took when its loop reached guideline i.
NowAt(e, i) == e.reads[i]

\* Guidelines the activation filter of evaluation e did not skip.
ActiveAt(e) == { i \in DOMAIN Flat : Needed(i) <= NowAt(e, i) }

\* Stored verdicts of the evaluated app for guideline i.
Verdicts(e, i) == RowsOf(quality_moderation, e.app_id, Flat[i].guideline.id)

\* Guideline i has an entry in a list of check records.
InList(items, i) == \E j \in DOMAIN items : items[j].guideline = Flat[i].guideline.id

\* Position in the catalog of the guideline of a check record.
FlatIndex(item) == CHOOSE i \in DOMAIN Flat : Flat[i].guideline.id = item.guideline

Counted(e) == e.result.unrated + e.result.passed + e.result.not_passed

StoredFor(app_id) == { row \in quality_moderation : row.app_id = app_id }

----------------------------------------------------------------------------
\* C1: a guideline whose activation time is strictly after now is never in
\* the check list and adds nothing to unrated, passed or not_passed, whether
\* or not a verdict is stored for it: unrated counts exactly the unskipped
\* guidelines without a verdict, and the two tallies count unskipped
\* guidelines only.
C1_NotYetNeededExcluded ==
    \A k \in DOMAIN evals :
        LET e == evals[k]
        IN  /\ \A i \in DOMAIN Flat :
                   Needed(i) > NowAt(e, i) =>
                       /\ ~InList(e.checks, i)
                       /\ ~InList(e.passed_items, i)
                       /\ ~InList(e.not_passed_items, i)
            /\ e.result.unrated = Cardinality({ i \in ActiveAt(e) : Verdicts(e, i) = {} })
            /\ e.result.passed <=
                   Cardinality({ i \in ActiveAt(e) : \E r \in Verdicts(e, i) : r.passed })
            /\ e.result.not_passed <=
                   Cardinality({ i \in ActiveAt(e) : \E r \in Verdicts(e, i) : ~r.passed })

\* An evaluation that skipped a guideline with a stored verdict and listed another.
C1_Witness ==
    \E k \in DOMAIN evals :
        /\ \E i \in DOMAIN Flat :
               Needed(i) > NowAt(evals[k], i) /\ Verdicts(evals[k], i) # {}
        /\ evals[k].checks # <<>>

\* C2: a guideline whose activation time is strictly before now and whose
\* verdict was upserted is counted in passed when the verdict is passed, in
\* not_passed when it is not, and never as unrated; when every guideline
\* active at now has a passed verdict the report has unrated = 0,
\* not_passed = 0 and passes.
C2_UpsertedVerdictCounted ==
    \A k \in DOMAIN evals :
        LET e == evals[k]
        IN  /\ \A i \in DOMAIN Flat : \A r \in Verdicts(e, i) :
                   Needed(i) < NowAt(e, i) =>
                       /\ InList(e.passed_items, i) <=> r.passed
                       /\ InList(e.not_passed_items, i) <=> ~r.passed
                       /\ \E j \in DOMAIN e.checks :
                              /\ e.checks[j].guideline = Flat[i].guideline.id
                              /\ e.checks[j].passed = Some(r.passed)
                       /\ e.result.unrated <= Cardinality(ActiveAt(e)) - 1
            /\ (\A i \in ActiveAt(e) : \E r \in Verdicts(e, i) : r.passed) =>
                   /\ e.result.unrated = 0
                   /\ e.result.not_passed = 0
                   /\ e.result.passes

\* Both guidelines active, both upserted as passed, and the report passes.
C2_Witness ==
    \E k \in DOMAIN evals :
        /\ ActiveAt(evals[k]) = DOMAIN Flat
        /\ \A i \in DOMAIN Flat : \E r \in Verdicts(evals[k], i) : r.passed
        /\ evals[k].result.passed >= 1
        /\ evals[k].result.passes
        /\ nUpserts >= 2

\* C3: unrated + passed + not_passed is at most the number of catalog
\* guidelines the activation filter did not skip.
C3_CountersWithinActive ==
    \A k \in DOMAIN evals : Counted(evals[k]) <= Cardinality(ActiveAt(evals[k]))

\* An evaluation that skipped one guideline and counted another.
C3_Witness ==
    \E k \in DOMAIN evals :
        /\ ActiveAt(evals[k]) # {}
        /\ ActiveAt(evals[k]) # DOMAIN Flat
        /\ Counted(evals[k]) >= 1

\* C4: passes is true exactly when unrated is 0 and not_passed is 0; with
\* every guideline of the catalog activating after now the report passes
\* with the three counters 0.
C4_PassesIffNothingOpen ==
    \A k \in DOMAIN evals :
        LET r == evals[k].result
        IN  /\ r.passes <=> (r.unrated = 0 /\ r.not_passed = 0)
            /\ ActiveAt(evals[k]) = {} =>
                   r.passes /\ r.unrated = 0 /\ r.passed = 0 /\ r.not_passed = 0

\* No guideline is active yet, the app has a failed verdict, the report passes.
C4_Witness ==
    \E k \in DOMAIN evals :
        /\ ActiveAt(evals[k]) = {}
        /\ \E row \in StoredFor(evals[k].app_id) : ~row.passed
        /\ evals[k].result.passes

\* C5: last-updated is the greatest updated_at over all verdicts stored for
\* the app, whatever their guideline, and datetime.min when there are none.
C5_LastUpdatedOverAllVerdicts ==
    \A k \in DOMAIN evals :
        LET rows == StoredFor(evals[k].app_id)
            last == evals[k].result.last_updated
        IN  /\ rows = {} => last = DatetimeMin
            /\ rows # {} =>
                   /\ \E row \in rows : row.updated_at = last
                   /\ \A row \in rows : row.updated_at <= last

\* The newest verdict of the app is for a guideline that is not in the
\* check list (not yet needed, or not in the catalog); an older one is.
C5_Witness ==
    \E k \in DOMAIN evals :
        \E new \in StoredFor(evals[k].app_id), old \in StoredFor(evals[k].app_id) :
            /\ new.updated_at = evals[k].result.last_updated
            /\ old.updated_at < new.updated_at
            /\ \A j \in DOMAIN evals[k].checks :
                   evals[k].checks[j].guideline # new.guideline_id
            /\ \E j \in DOMAIN evals[k].checks :
                   evals[k].checks[j].guideline = old.guideline_id

Keys(db) == { <<row.app_id, row.guideline_id>> : row \in db }

OneRowPerPair == \A row \in quality_moderation, other \in quality_moderation :
    (row.app_id = other.app_id /\ row.guideline_id = other.guideline_id) => row = other

\* The step is an upsert for (app, guideline): it leaves one more row when
\* the pair had none and the same number of rows when it had one.
UpsertStep ==
    upserts' # <<>> =>
        LET key == << upserts'[1].app_id, upserts'[1].guideline_id >>
        IN  Cardinality(quality_moderation') =
                Cardinality(quality_moderation) + (IF key \in Keys(quality_moderation) THEN 0 ELSE 1)

\* C6: the verdict store holds at most one row per (app id, guideline id)
\* pair after any sequence of upserts: the first upsert of a pair creates
\* its row, a later one overwrites that row, and no pair ever loses its row.
C6_OneRowPerPair ==
    /\ []OneRowPerPair
    /\ [][Keys(quality_moderation) \subseteq Keys(quality_moderation') /\ UpsertStep]_vars

\* Two upserts were made and the store holds one row.
C6_Witness == nUpserts >= 2 /\ Cardinality(quality_moderation) = 1

\* The response is that of an upsert the gate let through.
Upserted ==
    /\ request.endpoint = "POST /{app_id}"
    /\ quality_moderator_only(request.login) = None

\* C7: last write wins.  A moderator's upsert is never rejected, whatever
\* the guideline id, and leaves the pair's verdict with the passed value of
\* the request and the caller as moderator; a step that changes the store
\* is an upsert and changes no row of any other pair.
C7_LastWriteWins ==
    /\ [](Upserted =>
            /\ response.status_code = 200
            /\ Len(upserts) = 1
            /\ RowsOf(quality_moderation, request.app_id[1], request.body[1].guideline_id) =
                   { [app_id |-> request.app_id[1],
                      guideline_id |-> request.body[1].guideline_id,
                      passed |-> request.body[1].passed,
                      moderator_id |-> request.login.user[1].id,
                      updated_at |-> clock] })
    /\ [][quality_moderation' # quality_moderation =>
            /\ Upserted'
            /\ \A row \in quality_moderation \cup quality_moderation' :
                   (row.app_id # request'.app_id[1]
                        \/ row.guideline_id # request'.body[1].guideline_id) =>
                       (row \in quality_moderation /\ row \in quality_moderation')]_vars

\* A second upsert overwrote the verdict of the read_only guideline, another
\* pair's verdict is stored, and one was written for an id outside the catalog.
C7_Witness ==
    /\ Upserted
    /\ nUpserts >= 2
    /\ Cardinality(quality_moderation) = 1
    /\ \E i \in DOMAIN Flat :
           /\ Flat[i].guideline.read_only
           /\ Flat[i].guideline.id = request.body[1].guideline_id

\* C8: verdicts whose guideline id is not in the catalog are ignored: the
\* check list and the counters are those of the evaluation of the store
\* without such verdicts.
C8_RetiredVerdictsIgnored ==
    \A k \in DOMAIN evals :
        LET e == evals[k]
            known == { row \in quality_moderation : row.guideline_id \in CatalogIds }
            reads == e.reads \o [i \in 1..NReads |-> Last(e.reads)]
            f == get_quality_moderation_status_for_appid(known, e.app_id, reads)
        IN  /\ e.checks = f.checks
            /\ e.result.unrated = f.result.unrated
            /\ e.result.passed = f.result.passed
            /\ e.result.not_passed = f.result.not_passed
            /\ e.result.passes = f.result.passes

\* The app has a verdict for an id outside the catalog and a guideline is listed.
C8_Witness ==
    \E k \in DOMAIN evals :
        /\ \E row \in StoredFor(evals[k].app_id) : row.guideline_id \notin CatalogIds
        /\ evals[k].checks # <<>>

\* A check record with a verdict is in exactly one of the two tallies.
InOneTally(e, j) ==
    LET i == FlatIndex(e.checks[j])
    IN  InList(e.passed_items, i) # InList(e.not_passed_items, i)

\* C9 as stated: the tallies' temporal condition agrees with the activation
\* filter for every now, so every listed guideline with a verdict is in
\* exactly one tally, the counters add up to the length of the check list
\* and a listed guideline with a failed verdict makes passes false.
C9_TalliesAgreeWithFilter ==
    \A k \in DOMAIN evals :
        LET e == evals[k]
        IN  /\ \A j \in DOMAIN e.checks : e.checks[j].passed # None => InOneTally(e, j)
            /\ Counted(e) = Len(e.checks)
            /\ (\E j \in DOMAIN e.checks : e.checks[j].passed = Some(FALSE)) =>
                   ~e.result.passes

\* C9 amended: the same for guidelines whose activation time is strictly
\* before now; the counters add up to the length of the check list when no
\* listed guideline activates exactly at now.
C9_TalliesAgreeOffActivationInstant ==
    \A k \in DOMAIN evals :
        LET e == evals[k]
            before(j) == e.checks[j].needed_to_pass_since < NowAt(e, FlatIndex(e.checks[j]))
        IN  /\ \A j \in DOMAIN e.checks :
                   (e.checks[j].passed # None /\ before(j)) => InOneTally(e, j)
            /\ (\A j \in DOMAIN e.checks : before(j)) => Counted(e) = Len(e.checks)
            /\ (\E j \in DOMAIN e.checks : e.checks[j].passed = Some(FALSE) /\ before(j)) =>
                   ~e.result.passes

\* A listed guideline with a failed verdict, active before now, is counted.
C9_Witness ==
    \E k \in DOMAIN evals : \E j \in DOMAIN evals[k].checks :
        /\ evals[k].checks[j].passed = Some(FALSE)
        /\ evals[k].checks[j].needed_to_pass_since
               < NowAt(evals[k], FlatIndex(evals[k].checks[j]))
        /\ evals[k].result.not_passed >= 1
        /\ Len(evals[k].checks) = Len(Flat)

Endpoints == { "GET /status", "GET /{app_id}", "POST /{app_id}", "GET /{app_id}/status" }

\* C10: on each of the four endpoints a caller the gate refuses gets its
\* 401 or 403, and neither an evaluation nor an upsert is run for them.
C10_GateBeforeCore ==
    (request.endpoint \in Endpoints /\ quality_moderator_only(request.login) # None) =>
        /\ response.status_code = quality_moderator_only(request.login)[1].status_code
        /\ evals = <<>>
        /\ upserts = <<>>

====
